---- MODULE Spec2Model ----
(***************************************************************************)
(* Banner commands of azext_devops/dev/admin/banner.py, modelled over the  *)
(* host-scope Settings Store they read and write.                          *)
(*                                                                         *)
(* Every command invocation is one step, except banner_update, which makes *)
(* two store calls (setting_list, then setting_add_or_update) and is split *)
(* at the point between them so that other invocations can interleave.     *)
(***************************************************************************)
EXTENDS Integers, Sequences, FiniteSets, Bags, TLC

VARIABLES store, inflight, prev, last, nops

vars == <<store, inflight, prev, last, nops>>

(* Number of command invocations one behaviour starts. *)
MaxOps == 2

(* Python's None, as an argument value and as a stored JSON null. *)
None == "<None>"

(* ------------------------------------------------------------------ *)
(* Collaborators imported by banner.py (not part of the file itself).  *)
(* ------------------------------------------------------------------ *)

GLOBAL_MESSAGE_BANNERS_KEY == "GlobalMessageBanners"

(* Marker for "convert_date_string_to_iso8601 raised ValueError". *)
DateError == "<ValueError>"

(* Date Normalizer: parseable expressions become canonical timestamps,     *)
(* anything else raises.                                                   *)
convert_date_string_to_iso8601(value) ==
    CASE value = "2020-02-02"  -> "2020-02-02T00:00:00+00:00"
      [] value = "Feb 2 2020"  -> "2020-02-02T00:00:00+00:00"
      [] value = "2021-03-03"  -> "2021-03-03T00:00:00+00:00"
      [] OTHER                 -> DateError

(* Ids a key of the banner namespace can end in. *)
AllIds == {"m0", "m1", "u1"}

(* Settings Store list: the entries below `key`, named by their sub-key. *)
setting_list(st, key) ==
    [i \in {j \in AllIds : (key \o "/" \o j) \in DOMAIN st} |-> st[key \o "/" \o i]]

(* Settings Store addOrUpdate: each given key now holds the given value. *)
setting_add_or_update(st, entries) ==
    [k \in (DOMAIN st) \cup (DOMAIN entries) |->
        IF k \in DOMAIN entries THEN entries[k] ELSE st[k]]

(* Settings Store remove: the key is gone; removing an absent key is a no-op. *)
setting_remove(st, key) ==
    [k \in (DOMAIN st) \ {key} |-> st[k]]

(* ------------------------------------------------------------------ *)
(* Python dict helpers.                                                *)
(* ------------------------------------------------------------------ *)

EmptyDict == [k \in {} |-> None]

(* {k: v} *)
Single(k, v) == [x \in {k} |-> v]

(* d[k] = v *)
Put(d, k, v) == [x \in (DOMAIN d) \cup {k} |-> IF x = k THEN v ELSE d[x]]

(* ------------------------------------------------------------------ *)
(* banner.py                                                           *)
(* ------------------------------------------------------------------ *)

_get_banner_key(message_id) == GLOBAL_MESSAGE_BANNERS_KEY \o "/" \o message_id

(* What a command hands back: how it ended, the value it returned, the     *)
(* store calls it made in order, and the store it leaves.                  *)
Out(outcome, result, calls, st) ==
    [outcome |-> outcome, result |-> result, calls |-> calls, store |-> st]

banner_list(st, fail) ==
    IF fail
    THEN Out("service_error", EmptyDict, <<"list">>, st)
    ELSE Out("ok", setting_list(st, GLOBAL_MESSAGE_BANNERS_KEY), <<"list">>, st)

banner_show(st, message_id, fail) ==
    IF fail
    THEN Out("service_error", EmptyDict, <<"list">>, st)
    ELSE LET existing_entries == setting_list(st, GLOBAL_MESSAGE_BANNERS_KEY) IN
         IF message_id \notin DOMAIN existing_entries
         THEN Out("not_found", EmptyDict, <<"list">>, st)
         ELSE Out("ok", Single(message_id, existing_entries[message_id]), <<"list">>, st)

(* expiration_iso8601 of banner_add and banner_update. *)
expiration_to_iso8601(expiration) ==
    IF expiration # None
    THEN convert_date_string_to_iso8601(expiration)
    ELSE None

(* add_entry with the level written even when no banner_type was given. *)
add_entry_always_level(message, banner_type, expiration_iso8601) ==
    LET e1 == Put(Single("message", message), "level", banner_type) IN
    IF expiration_iso8601 # None
    THEN Put(e1, "expirationDate", expiration_iso8601) ELSE e1

(* The entry banner_add builds. *)
add_entry(message, banner_type, expiration_iso8601) ==
    LET e0 == Single("message", message)
        e1 == IF banner_type # None THEN Put(e0, "level", banner_type) ELSE e0
        e2 == IF expiration_iso8601 # None
              THEN Put(e1, "expirationDate", expiration_iso8601) ELSE e1
    IN  e2

(* message_id after banner_add's default: a fresh uuid4 when None or ''. *)
add_message_id(message_id, uuid) ==
    IF message_id = None \/ message_id = "" THEN uuid ELSE message_id

(* banner_add that validates the expiration only after the write. *)
banner_add_late_date_check(st, message, banner_type, message_id, expiration, uuid, fail) ==
    LET expiration_iso8601 == expiration_to_iso8601(expiration)
        id == add_message_id(message_id, uuid)
        setting_key == _get_banner_key(id)
        entries == Single(setting_key, add_entry(message, banner_type, None))
    IN  IF fail
        THEN Out("service_error", EmptyDict, <<"addOrUpdate">>, st)
        ELSE IF expiration_iso8601 = DateError
        THEN Out("bad_date", EmptyDict, <<"addOrUpdate">>,
                 setting_add_or_update(st, entries))
        ELSE Out("ok", Single(id, add_entry(message, banner_type, expiration_iso8601)),
                 <<"addOrUpdate">>,
                 setting_add_or_update(st, Single(setting_key,
                     add_entry(message, banner_type, expiration_iso8601))))

(* banner_add that overlays the new fields on the entry already stored. *)
banner_add_merge(st, message, banner_type, message_id, expiration, uuid, fail) ==
    LET expiration_iso8601 == expiration_to_iso8601(expiration) IN
    IF expiration_iso8601 = DateError
    THEN Out("bad_date", EmptyDict, <<>>, st)
    ELSE LET id == add_message_id(message_id, uuid)
             setting_key == _get_banner_key(id)
             new == add_entry(message, banner_type, expiration_iso8601)
             old == IF setting_key \in DOMAIN st THEN st[setting_key] ELSE EmptyDict
             merged == [f \in (DOMAIN old) \cup (DOMAIN new) |->
                           IF f \in DOMAIN new THEN new[f] ELSE old[f]]
         IN  IF fail
             THEN Out("service_error", EmptyDict, <<"addOrUpdate">>, st)
             ELSE Out("ok", Single(id, merged), <<"addOrUpdate">>,
                      setting_add_or_update(st, Single(setting_key, merged)))

banner_add(st, message, banner_type, message_id, expiration, uuid, fail) ==
    LET expiration_iso8601 == expiration_to_iso8601(expiration) IN
    IF expiration_iso8601 = DateError
    THEN Out("bad_date", EmptyDict, <<>>, st)
    ELSE LET id == add_message_id(message_id, uuid)
             setting_key == _get_banner_key(id)
             entries == Single(setting_key,
                               add_entry(message, banner_type, expiration_iso8601))
         IN  IF fail
             THEN Out("service_error", EmptyDict, <<"addOrUpdate">>, st)
             ELSE Out("ok", Single(id, entries[setting_key]), <<"addOrUpdate">>,
                      setting_add_or_update(st, entries))

(* The entry banner_update builds from the entry it read. *)
update_entry(existing_entry, message, banner_type, expiration_iso8601) ==
    LET e0 == Single("message", message)
        e1 == IF message # None THEN Put(e0, "message", message)
              ELSE IF "message" \in DOMAIN existing_entry
                   THEN Put(e0, "message", existing_entry["message"])
                   ELSE e0
        e2 == IF banner_type # None THEN Put(e1, "level", banner_type)
              ELSE IF "level" \in DOMAIN existing_entry
                   THEN Put(e1, "level", existing_entry["level"])
                   ELSE e1
        e3 == IF expiration_iso8601 # None
              THEN Put(e2, "expirationDate", expiration_iso8601)
              ELSE IF "expirationDate" \in DOMAIN existing_entry
                   THEN Put(e2, "expirationDate", existing_entry["expirationDate"])
                   ELSE e2
    IN  e3

(* banner_update_read without the check that some field was supplied. *)
banner_update_read_no_field_check(st, message, banner_type, message_id, expiration, fail) ==
    IF expiration_to_iso8601(expiration) = DateError
    THEN Out("bad_date", EmptyDict, <<>>, st)
    ELSE IF fail
    THEN Out("service_error", EmptyDict, <<"list">>, st)
    ELSE LET existing_entries == setting_list(st, GLOBAL_MESSAGE_BANNERS_KEY) IN
         IF message_id \notin DOMAIN existing_entries
         THEN Out("not_found", EmptyDict, <<"list">>, st)
         ELSE Out("reading", Single(message_id, existing_entries[message_id]),
                  <<"list">>, st)

(* banner_update_read that takes a missing banner for an empty one. *)
banner_update_read_upsert(st, message, banner_type, message_id, expiration, fail) ==
    IF message = None /\ banner_type = None /\ expiration = None
    THEN Out("no_fields", EmptyDict, <<>>, st)
    ELSE IF expiration_to_iso8601(expiration) = DateError
    THEN Out("bad_date", EmptyDict, <<>>, st)
    ELSE IF fail
    THEN Out("service_error", EmptyDict, <<"list">>, st)
    ELSE LET existing_entries == setting_list(st, GLOBAL_MESSAGE_BANNERS_KEY) IN
         IF message_id \notin DOMAIN existing_entries
         THEN Out("reading", Single(message_id, EmptyDict), <<"list">>, st)
         ELSE Out("reading", Single(message_id, existing_entries[message_id]),
                  <<"list">>, st)

(* banner_update_read that fetches the entries before it validates. *)
banner_update_read_list_first(st, message, banner_type, message_id, expiration, fail) ==
    IF fail
    THEN Out("service_error", EmptyDict, <<"list">>, st)
    ELSE LET existing_entries == setting_list(st, GLOBAL_MESSAGE_BANNERS_KEY) IN
         IF message = None /\ banner_type = None /\ expiration = None
         THEN Out("no_fields", EmptyDict, <<"list">>, st)
         ELSE IF expiration_to_iso8601(expiration) = DateError
         THEN Out("bad_date", EmptyDict, <<"list">>, st)
         ELSE IF message_id \notin DOMAIN existing_entries
         THEN Out("not_found", EmptyDict, <<"list">>, st)
         ELSE Out("reading", Single(message_id, existing_entries[message_id]),
                  <<"list">>, st)

(* banner_update up to and including its setting_list call and the lookup  *)
(* of message_id: outcome "reading" means it goes on to the write, holding *)
(* the entry it read in result.                                            *)
banner_update_read(st, message, banner_type, message_id, expiration, fail) ==
    IF message = None /\ banner_type = None /\ expiration = None
    THEN Out("no_fields", EmptyDict, <<>>, st)
    ELSE IF expiration_to_iso8601(expiration) = DateError
    THEN Out("bad_date", EmptyDict, <<>>, st)
    ELSE IF fail
    THEN Out("service_error", EmptyDict, <<"list">>, st)
    ELSE LET existing_entries == setting_list(st, GLOBAL_MESSAGE_BANNERS_KEY) IN
         IF message_id \notin DOMAIN existing_entries
         THEN Out("not_found", EmptyDict, <<"list">>, st)
         ELSE Out("reading", Single(message_id, existing_entries[message_id]),
                  <<"list">>, st)

(* The rest of banner_update: build the entry and write it. *)
banner_update_write(st, message, banner_type, message_id, expiration_iso8601, existing_entry, fail) ==
    LET setting_key == _get_banner_key(message_id)
        entries == Single(setting_key,
                          update_entry(existing_entry, message, banner_type,
                                       expiration_iso8601))
    IN  IF fail
        THEN Out("service_error", EmptyDict, <<"list", "addOrUpdate">>, st)
        ELSE Out("ok", Single(message_id, entries[setting_key]),
                 <<"list", "addOrUpdate">>, setting_add_or_update(st, entries))

(* banner_remove that passes the namespace key instead of the banner's key. *)
banner_remove_namespace(st, message_id, fail) ==
    IF fail
    THEN Out("service_error", EmptyDict, <<"remove">>, st)
    ELSE Out("ok", EmptyDict, <<"remove">>,
             [k \in {x \in DOMAIN st :
                        \A i \in AllIds :
                            x # GLOBAL_MESSAGE_BANNERS_KEY \o "/" \o i} |-> st[k]])

banner_remove(st, message_id, fail) ==
    LET setting_key == _get_banner_key(message_id) IN
    IF fail
    THEN Out("service_error", EmptyDict, <<"remove">>, st)
    ELSE Out("ok", EmptyDict, <<"remove">>, setting_remove(st, setting_key))

(* ------------------------------------------------------------------ *)
(* Inputs.                                                             *)
(* ------------------------------------------------------------------ *)

Messages == {"b"}

Levels == {"warning"}

Expirations == {"Feb 2 2020", "garbage"}

(* Ids the commands are invoked on; "u1" is the uuid banner_add generates. *)
Ids == {"m1", "u1"}

Uuids == {"u1"}

OptionalOf(S) == S \cup {None}

(* Stores the commands can find: a bystander banner m0, and banner m1      *)
(* absent or present with the optional sub-keys in some combination        *)
(* (the store is shared with other writers of the setting, so an entry     *)
(* need not have been built by banner_add).                                *)
InitEntries ==
    { Single("message", "a"),
      Put(Put(Single("message", "a"), "level", "info"),
          "expirationDate", "2019-01-01T00:00:00+00:00"),
      Single("level", "info"),
      Put(Single("level", "info"), "expirationDate", "2019-01-01T00:00:00+00:00") }

Bystander == Single(_get_banner_key("m0"), Single("message", "z"))

InitStores ==
    {Bystander} \cup {Put(Bystander, _get_banner_key("m1"), e) : e \in InitEntries}

(* ------------------------------------------------------------------ *)
(* The record of a completed invocation.                               *)
(* ------------------------------------------------------------------ *)

(* before: what the store held under message_id when the invocation began  *)
(* ({} or {message_id: entry}); id_arg: the id as the caller gave it.      *)
Rec(op, id_arg, message_id, message, banner_type, expiration, before, out) ==
    [op |-> op, id_arg |-> id_arg, id |-> message_id, message |-> message,
     level |-> banner_type, expiration |-> expiration, before |-> before,
     outcome |-> out.outcome, result |-> out.result, calls |-> out.calls]

NoRec ==
    [op |-> "none", id_arg |-> None, id |-> None, message |-> None, level |-> None,
     expiration |-> None, before |-> EmptyDict, outcome |-> "none",
     result |-> EmptyDict, calls |-> <<>>]

(* The part of setting_list's answer that is about message_id. *)
Before(st, message_id) ==
    LET all == setting_list(st, GLOBAL_MESSAGE_BANNERS_KEY) IN
    [i \in {message_id} \cap DOMAIN all |-> all[i]]

Complete(rec, st) ==
    /\ store' = st
    /\ prev' = last
    /\ last' = rec

(* ------------------------------------------------------------------ *)
(* Actions.                                                            *)
(* ------------------------------------------------------------------ *)

Init ==
    /\ store \in InitStores
    /\ inflight = EmptyBag
    /\ prev = NoRec
    /\ last = NoRec
    /\ nops = 0

List(fail) ==
    /\ nops < MaxOps
    /\ nops' = nops + 1
    /\ LET out == banner_list(store, fail) IN
       Complete(Rec("list", None, None, None, None, None, EmptyDict, out), out.store)
    /\ UNCHANGED inflight

Show(message_id, fail) ==
    /\ nops < MaxOps
    /\ nops' = nops + 1
    /\ LET out == banner_show(store, message_id, fail) IN
       Complete(Rec("show", message_id, message_id, None, None, None,
                    Before(store, message_id), out), out.store)
    /\ UNCHANGED inflight

Add(message, banner_type, message_id, expiration, uuid, fail) ==
    /\ nops < MaxOps
    /\ nops' = nops + 1
    /\ LET out == banner_add(store, message, banner_type, message_id, expiration,
                             uuid, fail)
           id  == add_message_id(message_id, uuid)
       IN  Complete(Rec("add", message_id, id, message, banner_type, expiration,
                        Before(store, id), out), out.store)
    /\ UNCHANGED inflight

UpdateRead(message, banner_type, message_id, expiration, fail) ==
    /\ nops < MaxOps
    /\ nops' = nops + 1
    /\ LET out == banner_update_read(store, message, banner_type, message_id,
                                     expiration, fail)
       IN  IF out.outcome = "reading"
           THEN /\ inflight' = inflight (+) SetToBag({
                        [message |-> message, banner_type |-> banner_type,
                         message_id |-> message_id, expiration |-> expiration,
                         expiration_iso8601 |-> expiration_to_iso8601(expiration),
                         existing_entry |-> out.result[message_id],
                         before |-> Before(store, message_id)]})
                /\ UNCHANGED <<store, prev, last>>
           ELSE /\ Complete(Rec("update", message_id, message_id, message, banner_type,
                                expiration, Before(store, message_id), out), out.store)
                /\ UNCHANGED inflight

UpdateWrite(u, fail) ==
    /\ BagIn(u, inflight)
    /\ inflight' = inflight (-) SetToBag({u})
    /\ LET out == banner_update_write(store, u.message, u.banner_type, u.message_id,
                                      u.expiration_iso8601, u.existing_entry, fail)
       IN  Complete(Rec("update", u.message_id, u.message_id, u.message, u.banner_type,
                        u.expiration, u.before, out),
                    out.store)
    /\ UNCHANGED nops

Remove(message_id, fail) ==
    /\ nops < MaxOps
    /\ nops' = nops + 1
    /\ LET out == banner_remove(store, message_id, fail) IN
       Complete(Rec("remove", message_id, message_id, None, None, None,
                    Before(store, message_id), out), out.store)
    /\ UNCHANGED inflight

Next ==
    \/ \E fail \in BOOLEAN : List(fail)
    \/ \E message_id \in Ids, fail \in BOOLEAN : Show(message_id, fail)
    \/ \E message \in Messages, banner_type \in OptionalOf(Levels),
          message_id \in OptionalOf({"", "m1"}), expiration \in OptionalOf(Expirations),
          uuid \in Uuids, fail \in BOOLEAN :
            Add(message, banner_type, message_id, expiration, uuid, fail)
    \/ \E message \in OptionalOf(Messages), banner_type \in OptionalOf(Levels),
          message_id \in Ids, expiration \in OptionalOf(Expirations), fail \in BOOLEAN :
            UpdateRead(message, banner_type, message_id, expiration, fail)
    \/ \E u \in BagToSet(inflight), fail \in BOOLEAN : UpdateWrite(u, fail)
    \/ \E message_id \in Ids, fail \in BOOLEAN : Remove(message_id, fail)

Spec == Init /\ [][Next]_vars

(* ------------------------------------------------------------------ *)
(* Properties.                                                         *)
(* ------------------------------------------------------------------ *)

Absent == "<absent>"

(* The value an entry holds for a sub-key, or Absent when it has none. *)
Field(e, f) == IF f \in DOMAIN e THEN e[f] ELSE Absent

(* The sub-keys an add with these arguments supplies. *)
SuppliedToAdd(r) ==
    {"message"} \cup (IF r.level # None THEN {"level"} ELSE {})
                \cup (IF r.expiration # None THEN {"expirationDate"} ELSE {})

(* The value an invocation supplies for a sub-key; None when it supplies none. *)
Supplied(r, f) ==
    CASE f = "message"        -> r.message
      [] f = "level"          -> r.level
      [] f = "expirationDate" -> expiration_to_iso8601(r.expiration)

OkUpdate(r) == r.op = "update" /\ r.outcome = "ok"

StoreCalls(r) == {r.calls[i] : i \in DOMAIN r.calls}

(* Every key but `key` holds in store' what it holds in store. *)
OthersUnchanged(key) ==
    /\ (DOMAIN store') \ {key} = (DOMAIN store) \ {key}
    /\ \A k \in (DOMAIN store) \ {key} : store'[k] = store[k]

(* C1: a successful add returns {id: entry} with exactly the supplied      *)
(* message, and level / expirationDate present exactly when supplied; a    *)
(* show of that id completing next (the store answering) succeeds and      *)
(* returns that same singleton mapping.                                    *)
C1_AddThenShow ==
    /\ (last.op = "add" /\ last.outcome = "ok") =>
          /\ DOMAIN last.result = {last.id}
          /\ DOMAIN last.result[last.id] = SuppliedToAdd(last)
          /\ last.result[last.id]["message"] = last.message
          /\ last.level # None => last.result[last.id]["level"] = last.level
    /\ (/\ last.op = "show" /\ last.outcome # "service_error"
        /\ prev.op = "add" /\ prev.outcome = "ok" /\ prev.id = last.id) =>
          /\ last.outcome = "ok"
          /\ last.result = prev.result
          /\ DOMAIN last.result = {last.id}
          /\ DOMAIN last.result[last.id] = SuppliedToAdd(prev)
          /\ last.result[last.id]["message"] = prev.message

(* add(message, level, id="m1") with no expiration, then show("m1"). *)
C1_Witness ==
    /\ prev.op = "add" /\ prev.outcome = "ok" /\ prev.id_arg = "m1"
    /\ prev.level # None /\ prev.expiration = None
    /\ last.op = "show" /\ last.outcome = "ok" /\ last.id = "m1"
    /\ DOMAIN last.result["m1"] = {"message", "level"}

(* C2: a successful update that supplies only level writes and returns an  *)
(* entry whose message and expirationDate are those of the entry it read;  *)
(* one that supplies only message carries the level it read forward.       *)
C2_UpdateKeepsUnsupplied ==
    OkUpdate(last) =>
        LET old == last.before[last.id]
            new == last.result[last.id]
        IN  /\ store[_get_banner_key(last.id)] = new
            /\ (last.level # None /\ last.message = None /\ last.expiration = None) =>
                  /\ Field(new, "message") = Field(old, "message")
                  /\ Field(new, "expirationDate") = Field(old, "expirationDate")
            /\ (last.message # None /\ last.level = None /\ last.expiration = None) =>
                  Field(new, "level") = Field(old, "level")

(* C3 as stated: update on an id that is not in the store fails with "not  *)
(* found" whatever fields are supplied (the store answering).              *)
C3_AbsentAlwaysNotFound ==
    (last.op = "update" /\ last.before = EmptyDict /\ last.outcome # "service_error")
        => last.outcome = "not_found"

(* C3, amended: update on an id that is not in the store never succeeds    *)
(* and never writes; it ends with the no-fields error when nothing is      *)
(* supplied, else with the date error when the expiration does not parse,  *)
(* else, after its list call, with "not found" (or the service's error).   *)
C3_AbsentNeverWrites ==
    [][(last'.op = "update" /\ last'.before = EmptyDict) =>
          /\ store' = store
          /\ "addOrUpdate" \notin StoreCalls(last')
          /\ last'.outcome =
               IF last'.message = None /\ last'.level = None /\ last'.expiration = None
               THEN "no_fields"
               ELSE IF expiration_to_iso8601(last'.expiration) = DateError
               THEN "bad_date"
               ELSE IF last'.calls = <<"list">> /\ last'.outcome = "service_error"
               THEN "service_error"
               ELSE "not_found"]_vars

(* update of an absent id: once with a field supplied, once with none.     *)
C3_Witness ==
    /\ prev.op = "update" /\ prev.before = EmptyDict /\ prev.outcome = "not_found"
    /\ prev.level # None
    /\ last.op = "update" /\ last.before = EmptyDict /\ last.outcome = "no_fields"

(* C4: update with message, level and expiration all absent ends with the  *)
(* no-fields validation error, makes no store call and leaves the store    *)
(* as it was, whether or not the id is in the store.                       *)
C4_NoFieldsAlwaysRejected ==
    [][(/\ last'.op = "update"
        /\ last'.message = None /\ last'.level = None /\ last'.expiration = None) =>
          /\ last'.outcome = "no_fields"
          /\ last'.calls = <<>>
          /\ store' = store]_vars

(* update with nothing supplied, on an absent id and then on a present id. *)
C4_Witness ==
    /\ prev.op = "update" /\ prev.outcome = "no_fields" /\ prev.before = EmptyDict
    /\ last.op = "update" /\ last.outcome = "no_fields" /\ last.before # EmptyDict
    /\ last.message = None /\ last.level = None /\ last.expiration = None

C6_BadDateNoMutation ==
    [][(last'.op \in {"add", "update"}
        /\ expiration_to_iso8601(last'.expiration) = DateError) =>
          /\ last'.outcome = "bad_date"
          /\ StoreCalls(last') \cap {"addOrUpdate", "remove"} = {}
          /\ store' = store]_vars

(* an update and then an add, both with an unparseable expiration, on a    *)
(* store that holds the banner.                                            *)
C6_Witness ==
    /\ prev.op = "update" /\ prev.outcome = "bad_date" /\ prev.before # EmptyDict
    /\ last.op = "add" /\ last.outcome = "bad_date" /\ last.before # EmptyDict
    /\ last.expiration = "garbage"

(* C7 as stated: every validation error (not found, no fields, bad date)   *)
(* is raised before the invocation makes any store call.                   *)
C7_ValidationBeforeAnyCall ==
    last.outcome \in {"not_found", "no_fields", "bad_date"} => last.calls = <<>>

(* C7, amended: the no-fields and unparseable-expiration errors are raised *)
(* before any store call; the not-found error of show and update is raised *)
(* after the one list call that looks the id up, before any write.         *)
C7_ValidationOrder ==
    /\ last.outcome \in {"no_fields", "bad_date"} => last.calls = <<>>
    /\ last.outcome = "not_found" =>
          /\ last.op \in {"show", "update"}
          /\ last.calls = <<"list">>

(* an update rejected for its expiration, then a show that finds nothing.  *)
C7_Witness ==
    /\ prev.op = "update" /\ prev.outcome = "bad_date" /\ prev.calls = <<>>
    /\ last.op = "show" /\ last.outcome = "not_found" /\ last.calls = <<"list">>

(* C8: the entry a successful update writes holds, for each of message,    *)
(* level and expirationDate, the supplied value if one was given, else the *)
(* value of the entry it read if that has the sub-key, else no such        *)
(* sub-key at all; it has no other sub-keys.                               *)
C8_UpdateMerge ==
    OkUpdate(last) =>
        LET old == last.before[last.id]
            new == last.result[last.id]
        IN  /\ store[_get_banner_key(last.id)] = new
            /\ DOMAIN new \subseteq {"message", "level", "expirationDate"}
            /\ \A f \in {"message", "level", "expirationDate"} :
                  IF Supplied(last, f) # None THEN Field(new, f) = Supplied(last, f)
                  ELSE IF f \in DOMAIN old THEN Field(new, f) = old[f]
                  ELSE f \notin DOMAIN new

(* C9: when two successful updates of one id both read the same prior      *)
(* entry, the stored entry is the one the later write wrote, and each      *)
(* sub-key supplied only by the earlier update is back at its prior value. *)
C9_LastWriterWins ==
    (/\ OkUpdate(prev) /\ OkUpdate(last) /\ prev.id = last.id
     /\ prev.before = last.before) =>
        LET prior == last.before[last.id]
            final == store[_get_banner_key(last.id)]
        IN  /\ final = last.result[last.id]
            /\ \A f \in {"message", "level", "expirationDate"} :
                  (Supplied(prev, f) # None /\ Supplied(last, f) = None) =>
                      Field(final, f) = Field(prior, f)

(* C10: a successful add makes the one addOrUpdate call and no list call;  *)
(* the entry then stored under its id has exactly the sub-keys supplied,   *)
(* with the supplied message and level, whatever the key held before; the  *)
(* entries under other keys are as they were.                              *)
C10_AddOverwrites ==
    [][(last'.op = "add" /\ last'.outcome = "ok") =>
          LET key == _get_banner_key(last'.id) IN
          /\ last'.calls = <<"addOrUpdate">>
          /\ key \in DOMAIN store'
          /\ DOMAIN store'[key] = SuppliedToAdd(last')
          /\ store'[key]["message"] = last'.message
          /\ last'.level # None => store'[key]["level"] = last'.level
          /\ last'.expiration # None =>
                store'[key]["expirationDate"] = expiration_to_iso8601(last'.expiration)
          /\ OthersUnchanged(key)]_vars

(* add of message alone onto a banner that held a level and an expiration. *)
C10_Witness ==
    /\ last.op = "add" /\ last.outcome = "ok" /\ last.id = "m1"
    /\ last.level = None /\ last.expiration = None
    /\ last.before # EmptyDict
    /\ {"level", "expirationDate"} \subseteq DOMAIN last.before["m1"]
    /\ DOMAIN store[_get_banner_key("m1")] = {"message"}

====
